---- MODULE Spec2Model ----
(***************************************************************************)
(* Model of the two tools of the repository.                               *)
(*                                                                         *)
(*   compress_jpegs.py    - the batch image recompressor                   *)
(*                          (specification Spec)                           *)
(*   file_name_change.py  - the log renamer rename_logs_by_hostname        *)
(*                          (specification SpecRename)                     *)
(*                                                                         *)
(* The file system is case sensitive: x.png and x.PNG are two files.       *)
(* Pixel data, EXIF and ICC blobs are not modelled; an image is its        *)
(* container format, its colour mode, the minimum of its alpha channel     *)
(* and the presence of the palette "transparency" key.                     *)
(***************************************************************************)
EXTENDS Integers, Sequences, FiniteSets, TLC

\* ---------------------------------------------------------------- bounds
\* largest number of entries os.listdir returns
MaxFiles == 2
\* largest byte size of a source file; an encoder may produce one byte more
MaxSize == 2
\* largest number of entries of the log folder
MaxLogs == 3

\* --------------------------------------------------- compress_jpegs.py data
Bases == {"x"}
\* ".jpeg" takes the same path as ".jpg" through every line of the code and
\* is left out of the names; "PNG" exercises str.lower(), "txt" the filter
Exts == {"jpg", "png", "PNG", "txt"}
FileNames == [base : Bases, ext : Exts]

\* str.lower() on the extensions above
Lower(e) == IF e = "PNG" THEN "png" ELSE e

\* os.path.splitext(name)
splitext(name) == <<name.base, name.ext>>

\* a path of the destination directory: os.path.join(dst_dir, base + ext)
Join(b, e) == [base |-> b, ext |-> e]

\* the quality values offered to the entry points
Qualities == {-1, 0, 1, 95, 96}

\* what Image.open can decode from the bytes of a file, whatever its name
Images ==
    { [format |-> "JPEG", mode |-> "RGB", alphaMin |-> 255, transparency |-> FALSE],
      [format |-> "PNG", mode |-> "RGBA", alphaMin |-> 255, transparency |-> FALSE],
      [format |-> "PNG", mode |-> "RGBA", alphaMin |-> 0, transparency |-> FALSE],
      [format |-> "PNG", mode |-> "P", alphaMin |-> 255, transparency |-> TRUE] }
\* the bytes are no image: Image.open raises
Unreadable == [format |-> "none", mode |-> "none", alphaMin |-> 255, transparency |-> FALSE]
NoImage == [format |-> "closed", mode |-> "none", alphaMin |-> 255, transparency |-> FALSE]

\* a file of the destination directory
NoFile == [kind |-> "none", of |-> Join("x", "txt"), format |-> "none", size |-> 0]
\* the file the Transcoder encoded, with the colour mode it was saved in
NoArtifact == [format |-> "none", mode |-> "none", size |-> 0]

VARIABLES
    entry,      \* "cli" (run_cli) or "gui" (run_gui.run)
    quality,    \* args.quality / int(quality_var.get())
    pc,         \* position of the batch
    files,      \* list(iter_images(src_dir)): records [name, size]
    i,          \* index in files of the file of the current iteration (1-based)
    img,        \* the image opened by the current iteration
    out_path,   \* local out_path of the current iteration
    out_is_jpeg,\* local out_is_jpeg of the current iteration
    artifact,   \* what the Transcoder wrote in the current iteration
    rmErr,      \* the OSError swallowed at lines 80-81 in the current iteration
    dst,        \* destination directory: path -> file
    out_paths,  \* list out_paths
    cbCalls,    \* the invocations of progress_cb
    summary,    \* the tuple compress_dir_with_progress returns
    reported    \* what the user is shown at the end

compressVars == <<entry, quality, pc, files, i, img, out_path, out_is_jpeg,
                  artifact, rmErr, dst, out_paths, cbCalls, summary, reported>>

VARIABLES
    folder,     \* the log folder: name -> entry
    folder0,    \* the folder as it was when rename_logs_by_hostname was called
    listing,    \* os.listdir(folder_path), the names in the order returned
    j,          \* index in listing of the entry of the current iteration
    renamed,    \* counter renamed
    skipped,    \* counter skipped
    failed,     \* counter failed
    rpc,        \* position of rename_logs_by_hostname
    clobbered   \* some os.replace landed on a path that existed

renameVars == <<folder, folder0, listing, j, renamed, skipped, failed, rpc, clobbered>>

DstNames == [base : Bases, ext : Exts \ {"txt"}]

\* one entry of os.listdir(src_dir), with what isfile and getsize say of it
Entries == [name : FileNames, isfile : BOOLEAN, size : 1..MaxSize]

\* the directory listings: at most MaxFiles entries, no name twice
Listings ==
    { l \in UNION { [1..n -> Entries] : n \in 0..MaxFiles } :
        \A a, b \in DOMAIN l : a # b => l[a].name # l[b].name }

\* the sizes an encoder can produce
EncSizes == 1..(MaxSize + 1)

RECURSIVE iter_images(_)
iter_images(names) ==
    IF names = <<>> THEN <<>>
    ELSE LET e == Head(names)
             rest == iter_images(Tail(names))
         IN IF ~e.isfile THEN rest
            ELSE IF Lower(e.name.ext) \in {"jpg", "jpeg", "png"}
                 THEN <<[name |-> e.name, size |-> e.size]>> \o rest
                 ELSE rest

\* a transparency test that looks at the mode only, not at the pixels
has_transparency_by_mode(im) ==
    IF im.mode \in {"RGBA", "LA"} THEN TRUE
    ELSE IF im.mode = "P" THEN im.transparency
    ELSE FALSE

has_transparency(im) ==
    IF im.mode \in {"RGBA", "LA"} THEN im.alphaMin < 255
    ELSE IF im.mode = "P" THEN im.transparency
    ELSE FALSE

\* img.convert("RGB") when the mode is neither RGB nor L
JpegMode(mode) == IF mode \notin {"RGB", "L"} THEN "RGB" ELSE mode

\* the output path the Transcoder chooses (lines 47-59)
TargetPath(name, im) ==
    LET base == splitext(name)[1]
        ext == Lower(splitext(name)[2])
    IN IF ext = "png"
       THEN IF has_transparency(im) THEN Join(base, "png") ELSE Join(base, "jpg")
       ELSE name

\* out_is_jpeg as the Transcoder leaves it (lines 48-59)
TargetIsJpeg(name, im) ==
    LET ext == Lower(splitext(name)[2])
    IN IF ext = "png" THEN ~has_transparency(im) ELSE ext \in {"jpg", "jpeg"}

\* what img.save encodes: container, colour mode, byte length
Encoded(im, isJpeg, sz) ==
    [format |-> IF isJpeg THEN "JPEG" ELSE "PNG",
     mode |-> IF isJpeg THEN JpegMode(im.mode) ELSE im.mode,
     size |-> sz]

\* the file img.save writes for the source called name
Written(name, art) ==
    [kind |-> "artifact", of |-> name, format |-> art.format, size |-> art.size]

\* a file img.save left behind when it raised
Partial(name) ==
    [kind |-> "partial", of |-> name, format |-> "none", size |-> 0]

\* the file shutil.copy2(path, out_path) writes
CopyOf(f, im) ==
    [kind |-> "copy", of |-> f.name, format |-> im.format, size |-> f.size]

\* a size test that tolerates one byte of growth
RegressedOffByOne(outSize, srcSize) == outSize > srcSize + 1

\* line 76: os.path.getsize(out_path) > os.path.getsize(path)
Regressed(outSize, srcSize) == outSize > srcSize

\* a fallback that keeps the path the Transcoder chose
FallbackPathKeepsTarget(name, out) == out

\* lines 77, 82: the fallback goes to os.path.join(dst_dir, name)
FallbackPath(name, out) == IF out # name THEN name ELSE out

\* lines 78-81: os.remove(out_path), an OSError swallowed
Removed(fo, path, ok) == IF ok THEN [fo EXCEPT ![path] = NoFile] ELSE fo

RECURSIVE SumSizes(_)
SumSizes(s) == IF s = <<>> THEN 0 ELSE Head(s) + SumSizes(Tail(s))

NoSummary == <<-1, -1, -1>>

\* the condition of line 177
QualityRejected(q) == q < 1 \/ q > 95

HasCallback == entry = "gui"

CompressInit ==
    /\ entry \in {"cli", "gui"}
    /\ quality \in Qualities
    /\ pc = "idle"
    /\ files = <<>>
    /\ i = 0
    /\ img = NoImage
    /\ out_path = Join("x", "txt")
    /\ out_is_jpeg = FALSE
    /\ artifact = NoArtifact
    /\ rmErr = FALSE
    /\ dst = [n \in DstNames |-> NoFile]
    /\ out_paths = <<>>
    /\ cbCalls = <<>>
    /\ summary = NoSummary
    /\ reported = "none"

\* main -> run_cli -> compress_dir -> compress_dir_with_progress(.., None)
RunCli ==
    /\ pc = "idle"
    /\ entry = "cli"
    /\ pc' = "start"
    /\ UNCHANGED <<renameVars, entry, quality, files, i, img, out_path, out_is_jpeg, artifact,
                   rmErr, dst, out_paths, cbCalls, summary, reported>>

\* run_gui.run: the quality check, then the worker thread
RunGui ==
    /\ pc = "idle"
    /\ entry = "gui"
    /\ IF QualityRejected(quality)
       THEN pc' = "rejected" /\ reported' = "error"
       ELSE pc' = "start" /\ reported' = reported
    /\ UNCHANGED <<renameVars, entry, quality, files, i, img, out_path, out_is_jpeg, artifact,
                   rmErr, dst, out_paths, cbCalls, summary>>

\* lines 37-42: list the directory, first progress callback
StartBatch ==
    /\ pc = "start"
    /\ \E names \in Listings :
         /\ files' = iter_images(names)
         /\ cbCalls' = IF HasCallback
                       THEN <<[delta |-> 0, total |-> Len(files'), step |-> FALSE]>>
                       ELSE cbCalls
         /\ i' = 1
         /\ pc' = IF Len(files') = 0 THEN "return" ELSE "open"
    /\ out_paths' = <<>>
    /\ UNCHANGED <<renameVars, entry, quality, img, out_path, out_is_jpeg, artifact, rmErr, dst,
                   summary, reported>>

\* lines 44-49 (Inspector): the locals of the iteration, then Image.open
OpenImage ==
    /\ pc = "open"
    /\ LET name == files[i].name
           ext == Lower(splitext(name)[2])
       IN /\ out_path' = name
          /\ out_is_jpeg' = (ext \in {"jpg", "jpeg"})
    /\ artifact' = NoArtifact
    /\ rmErr' = FALSE
    /\ \E im \in Images \cup {Unreadable} :
         /\ img' = im
         /\ pc' = IF im = Unreadable THEN "raised" ELSE "transcode"
    /\ UNCHANGED <<renameVars, entry, quality, files, i, dst, out_paths, cbCalls, summary, reported>>

\* lines 50-74 (Transcoder): decide the container, convert, save
Transcode ==
    /\ pc = "transcode"
    /\ LET name == files[i].name
           target == TargetPath(name, img)
           isJpeg == TargetIsJpeg(name, img)
       IN /\ out_path' = target
          /\ out_is_jpeg' = isJpeg
          /\ \/ \E sz \in EncSizes :
                  /\ artifact' = Encoded(img, isJpeg, sz)
                  /\ dst' = [dst EXCEPT ![target] = Written(name, artifact')]
                  /\ pc' = "guard"
             \/ \* img.save raises: nothing written, or a truncated file left
                /\ artifact' = NoArtifact
                /\ dst' \in {dst, [dst EXCEPT ![target] = Partial(name)]}
                /\ pc' = "raised"
    /\ UNCHANGED <<renameVars, entry, quality, files, i, img, rmErr, out_paths, cbCalls, summary,
                   reported>>

\* lines 76-84 (Guard): keep the original when the output is bigger
Guard ==
    /\ pc = "guard"
    /\ LET f == files[i]
           name == f.name
       IN IF Regressed(dst[out_path].size, f.size)
          THEN \E rmOk \in BOOLEAN, cpOk \in BOOLEAN :
                 LET moved == out_path # name
                     removed == IF moved THEN Removed(dst, out_path, rmOk) ELSE dst
                     target == FallbackPath(name, out_path)
                 IN /\ rmErr' = (moved /\ ~rmOk)
                    /\ out_path' = target
                    /\ IF cpOk
                       THEN /\ dst' = [removed EXCEPT ![target] = CopyOf(f, img)]
                            /\ out_paths' = Append(out_paths, target)
                            /\ pc' = "progress"
                       ELSE /\ dst' = removed
                            /\ out_paths' = out_paths
                            /\ pc' = "raised"
          ELSE /\ out_paths' = Append(out_paths, out_path)
               /\ pc' = "progress"
               /\ UNCHANGED <<rmErr, out_path, dst>>
    /\ UNCHANGED <<renameVars, entry, quality, files, i, img, out_is_jpeg, artifact,
                   cbCalls, summary, reported>>

\* lines 85-86 and the loop header: progress callback, next file
Progress ==
    /\ pc = "progress"
    /\ cbCalls' = IF HasCallback
                  THEN Append(cbCalls, [delta |-> 1, total |-> Len(files), step |-> TRUE])
                  ELSE cbCalls
    /\ i' = i + 1
    /\ img' = NoImage
    /\ pc' = IF i = Len(files) THEN "return" ELSE "open"
    /\ UNCHANGED <<renameVars, entry, quality, files, out_path, out_is_jpeg, artifact, rmErr, dst,
                   out_paths, summary, reported>>

\* lines 87-89: the summary; os.path.getsize raises on a missing output
Return ==
    /\ pc = "return"
    /\ IF \A k \in DOMAIN out_paths : dst[out_paths[k]] # NoFile
       THEN /\ summary' = << Len(files),
                             SumSizes([k \in DOMAIN files |-> files[k].size]),
                             SumSizes([k \in DOMAIN out_paths |-> dst[out_paths[k]].size]) >>
            /\ pc' = "returned"
       ELSE /\ summary' = summary
            /\ pc' = "raised"
    /\ UNCHANGED <<renameVars, entry, quality, files, i, img, out_path, out_is_jpeg, artifact,
                   rmErr, dst, out_paths, cbCalls, reported>>

\* run_cli prints the summary; run_worker shows it, or shows the exception
Finish ==
    /\ pc \in {"returned", "raised"}
    /\ reported' = IF pc = "returned" THEN "summary" ELSE "error"
    /\ pc' = IF pc = "returned" THEN "done" ELSE "failed"
    /\ UNCHANGED <<renameVars, entry, quality, files, i, img, out_path, out_is_jpeg, artifact,
                   rmErr, dst, out_paths, cbCalls, summary>>

CompressNext ==
    \/ RunCli
    \/ RunGui
    \/ StartBatch
    \/ OpenImage
    \/ Transcode
    \/ Guard
    \/ Progress
    \/ Return
    \/ Finish

\* ------------------------------------------------- file_name_change.py data
\* a file name is a stem (a list of tokens joined by "_") and an extension
LogName(stem, ext) == [stem |-> stem, ext |-> ext]

\* the host names a SysName line can give: "h" and "h_1"
Hosts == {<<"h">>, <<"h", 1>>}
NoHost == <<>>

\* f"{base}{ext}" for counter 0, f"{base}_{counter}{ext}" after (lines 51, 61)
Candidate(base, counter) ==
    LogName(IF counter = 0 THEN base ELSE Append(base, counter), "log")

InitialNames ==
    { LogName(<<"a">>, "log"), LogName(<<"h">>, "log"), LogName(<<"h", 1>>, "log"),
      LogName(<<"h">>, "LOG"), LogName(<<"c">>, "txt") }

LogNames ==
    InitialNames \cup { Candidate(h, c) : h \in Hosts, c \in 0..MaxLogs }

Absent == [kind |-> "none", sysname |-> NoHost, readable |-> FALSE, id |-> LogName(<<>>, "none")]

\* what a name of the folder can be: a directory; a file that cannot be read;
\* a file with no SysName line; a file whose first SysName line names a host
EntryKinds ==
    { [kind |-> "dir", sysname |-> NoHost, readable |-> FALSE],
      [kind |-> "file", sysname |-> NoHost, readable |-> FALSE] }
    \cup { [kind |-> "file", sysname |-> h, readable |-> TRUE] : h \in Hosts \cup {NoHost} }

\* filename.lower().endswith(".log")
IsLogName(name) == name.ext \in {"log", "LOG"}

\* os.path.exists(path)
Exists(fo, name) == fo[name].kind # "none"

\* os.path.isfile(path)
IsFile(fo, name) == fo[name].kind = "file"

\* a target chosen without looking at the folder
FreeNameUnchecked(fo, base, counter) == Candidate(base, counter)

\* the while loop of lines 59-63: the first candidate that does not exist
RECURSIVE FreeName(_, _, _)
FreeName(fo, base, counter) ==
    IF Exists(fo, Candidate(base, counter))
    THEN FreeName(fo, base, counter + 1)
    ELSE Candidate(base, counter)

\* os.replace(file_path, new_path)
Replace(fo, from, to) == [fo EXCEPT ![to] = fo[from], ![from] = Absent]

\* the orders os.listdir can return the names in
Orders(names) ==
    { o \in [1..Cardinality(names) -> names] :
        \A a, b \in DOMAIN o : a # b => o[a] # o[b] }

RenameIdle ==
    /\ folder = [n \in LogNames |-> Absent]
    /\ folder0 = folder
    /\ listing = <<>>
    /\ j = 0
    /\ renamed = 0
    /\ skipped = 0
    /\ failed = 0
    /\ rpc = "idle"
    /\ clobbered = FALSE

RenameInit ==
    /\ \E names \in SUBSET InitialNames :
         /\ Cardinality(names) <= MaxLogs
         /\ \E kinds \in [names -> EntryKinds] :
              folder = [n \in LogNames |->
                          IF n \in names
                          THEN [kind |-> kinds[n].kind, sysname |-> kinds[n].sysname,
                                readable |-> kinds[n].readable, id |-> n]
                          ELSE Absent]
    /\ folder0 = folder
    /\ listing = <<>>
    /\ j = 0
    /\ renamed = 0
    /\ skipped = 0
    /\ failed = 0
    /\ rpc = "call"
    /\ clobbered = FALSE

CompressIdle ==
    /\ entry = "cli"
    /\ quality = 10
    /\ pc = "off"
    /\ files = <<>>
    /\ i = 0
    /\ img = NoImage
    /\ out_path = Join("x", "txt")
    /\ out_is_jpeg = FALSE
    /\ artifact = NoArtifact
    /\ rmErr = FALSE
    /\ dst = [n \in DstNames |-> NoFile]
    /\ out_paths = <<>>
    /\ cbCalls = <<>>
    /\ summary = NoSummary
    /\ reported = "none"

NextEntry == IF j = Len(listing) THEN "return" ELSE "loop"

\* line 22: os.listdir(folder_path)
ListDir ==
    /\ rpc = "call"
    /\ listing' \in Orders({ n \in LogNames : Exists(folder, n) })
    /\ j' = 1
    /\ rpc' = IF Len(listing') = 0 THEN "return" ELSE "loop"
    /\ UNCHANGED <<compressVars, folder, folder0, renamed, skipped, failed, clobbered>>

\* lines 23-28: not a .log name, or not a regular file
SkipEntry ==
    /\ rpc = "loop"
    /\ ~IsLogName(listing[j]) \/ ~IsFile(folder, listing[j])
    /\ j' = j + 1
    /\ rpc' = NextEntry
    /\ UNCHANGED <<compressVars, folder, folder0, listing, renamed, skipped, failed,
                   clobbered>>

\* lines 32-42: open or read raises
ReadFail ==
    /\ rpc = "loop"
    /\ IsLogName(listing[j]) /\ IsFile(folder, listing[j])
    /\ ~folder[listing[j]].readable
    /\ skipped' = skipped + 1
    /\ j' = j + 1
    /\ rpc' = NextEntry
    /\ UNCHANGED <<compressVars, folder, folder0, listing, renamed, failed, clobbered>>

\* lines 44-47: no line matches SysName
NoSysName ==
    /\ rpc = "loop"
    /\ IsLogName(listing[j]) /\ IsFile(folder, listing[j])
    /\ folder[listing[j]].readable
    /\ folder[listing[j]].sysname = NoHost
    /\ skipped' = skipped + 1
    /\ j' = j + 1
    /\ rpc' = NextEntry
    /\ UNCHANGED <<compressVars, folder, folder0, listing, renamed, failed, clobbered>>

\* lines 49-57: the file already has its host's name
AlreadyNamed ==
    /\ rpc = "loop"
    /\ IsLogName(listing[j]) /\ IsFile(folder, listing[j])
    /\ folder[listing[j]].readable
    /\ folder[listing[j]].sysname # NoHost
    /\ Candidate(folder[listing[j]].sysname, 0) = listing[j]
    /\ skipped' = skipped + 1
    /\ j' = j + 1
    /\ rpc' = NextEntry
    /\ UNCHANGED <<compressVars, folder, folder0, listing, renamed, failed, clobbered>>

\* lines 49-57 passed: the SysName of the file is not its name
NeedsRename ==
    /\ rpc = "loop"
    /\ IsLogName(listing[j]) /\ IsFile(folder, listing[j])
    /\ folder[listing[j]].readable
    /\ folder[listing[j]].sysname # NoHost
    /\ Candidate(folder[listing[j]].sysname, 0) # listing[j]

\* lines 59-68: find a free name, os.replace
Rename ==
    /\ NeedsRename
    /\ LET new_path == FreeName(folder, folder[listing[j]].sysname, 0)
       IN /\ folder' = Replace(folder, listing[j], new_path)
          /\ clobbered' = (clobbered \/ Exists(folder, new_path))
    /\ renamed' = renamed + 1
    /\ j' = j + 1
    /\ rpc' = NextEntry
    /\ UNCHANGED <<compressVars, folder0, listing, skipped, failed>>

\* lines 59-66, 69-71: os.replace raises
RenameFail ==
    /\ NeedsRename
    /\ failed' = failed + 1
    /\ j' = j + 1
    /\ rpc' = NextEntry
    /\ UNCHANGED <<compressVars, folder, folder0, listing, renamed, skipped, clobbered>>

\* line 73
ReturnCounts ==
    /\ rpc = "return"
    /\ rpc' = "done"
    /\ UNCHANGED <<compressVars, folder, folder0, listing, j, renamed, skipped, failed,
                   clobbered>>

RenameNext ==
    \/ ListDir
    \/ SkipEntry
    \/ ReadFail
    \/ NoSysName
    \/ AlreadyNamed
    \/ Rename
    \/ RenameFail
    \/ ReturnCounts

vars == <<compressVars, renameVars>>
Init == CompressInit /\ RenameIdle
Next == CompressNext
Spec == Init /\ [][Next]_vars

InitRename == RenameInit /\ CompressIdle
SpecRename == InitRename /\ [][RenameNext]_vars

\* ------------------------------------------------------------ properties
HasAlpha(im) == im.mode \in {"RGBA", "LA"}
Terminated == pc \in {"done", "failed"}
AfterGuard == pc = "progress"

\* C1: when the batch returns, the file at every source's recorded output
\* path is no larger than that source.
C1_OutputNotLargerAtReturn ==
    pc \in {"returned", "done"} =>
        /\ Len(out_paths) = Len(files)
        /\ \A k \in DOMAIN files : dst[out_paths[k]].size <= files[k].size

\* C2: a file that fails never aborts the batch: the batch ends with its
\* summary reported and every file counted.
C2_BadFileNeverAbortsBatch ==
    Terminated => /\ reported = "summary"
                  /\ summary[1] = Len(files)

\* C3: on every entry path a quality outside 1..95 is rejected before any
\* source file is opened or any output file is written.
C3_InvalidQualityRejectedFirst ==
    QualityRejected(quality) =>
        /\ img = NoImage
        /\ out_paths = <<>>
        /\ \A n \in DstNames : dst[n] = NoFile

\* C4: when the encoded artifact is larger than the source, after the Guard
\* step the destination holds the source's bytes under the source's original
\* file name, and that path is the recorded output.
C4_FallbackUnderOriginalName ==
    (AfterGuard /\ artifact.size > files[i].size) =>
        /\ out_path = files[i].name
        /\ out_paths[i] = files[i].name
        /\ dst[files[i].name] = CopyOf(files[i], img)

C4_Witness ==
    /\ AfterGuard
    /\ artifact.size > files[i].size
    /\ files[i].name = Join("x", "png")
    /\ artifact.format = "JPEG"
    /\ out_path = Join("x", "png")
    /\ dst[Join("x", "jpg")] = NoFile

\* C5: a source whose alpha channel has a pixel that is not fully opaque ends
\* in the PNG container under the same base name.
C5_TransparentAlphaStaysLossless ==
    (AfterGuard /\ HasAlpha(img) /\ img.alphaMin < 255) =>
        /\ dst[out_path].format = "PNG"
        /\ out_path.base = files[i].name.base

\* C6 as stated: a source whose alpha channel is fully opaque ends, after the
\* Guard step, in the JPEG container at <base>.jpg.
C6_OpaqueAlphaEndsJpeg ==
    (AfterGuard /\ HasAlpha(img) /\ img.alphaMin = 255) =>
        /\ dst[out_path].format = "JPEG"
        /\ out_path = Join(files[i].name.base, "jpg")

\* C6 amended: a source whose alpha channel is fully opaque is encoded as a
\* JPEG (RGB) at <base>.jpg; after the Guard step that artifact is the output
\* unless it is larger than the source, and then the output is the source's
\* bytes under the source's original name.
C6_OpaqueAlphaJpegUnlessFallback ==
    (AfterGuard /\ HasAlpha(img) /\ img.alphaMin = 255) =>
        /\ artifact.format = "JPEG"
        /\ artifact.mode = "RGB"
        /\ IF artifact.size > files[i].size
           THEN /\ out_path = files[i].name
                /\ dst[out_path] = CopyOf(files[i], img)
           ELSE /\ out_path = Join(files[i].name.base, "jpg")
                /\ dst[out_path] = Written(files[i].name, artifact)

C6_Witness ==
    /\ AfterGuard
    /\ HasAlpha(img) /\ img.alphaMin = 255
    /\ files[i].name = Join("x", "png")
    /\ artifact.size <= files[i].size
    /\ out_path = Join("x", "jpg")

\* C7: the fallback of a .png source leaves the output that an earlier source
\* of the batch has at <base>.jpg present and unchanged.
C7_PngFallbackKeepsJpgOutput ==
    (AfterGuard /\ Lower(files[i].name.ext) = "png" /\ artifact.format = "JPEG"
        /\ artifact.size > files[i].size) =>
        \A k \in 1..(i - 1) :
            out_paths[k] = Join(files[i].name.base, "jpg") =>
                /\ dst[out_paths[k]].kind \in {"artifact", "copy"}
                /\ dst[out_paths[k]].of = files[k].name

\* C8: in a batch with a progress callback the callback is invoked
\* fileCount + 1 times: (0, total) first, then delta 1 once per file.
C8_ProgressCallsPerBatch ==
    (Terminated /\ HasCallback) =>
        /\ Len(cbCalls) = Len(files) + 1
        /\ cbCalls[1] = [delta |-> 0, total |-> Len(files), step |-> FALSE]
        /\ \A k \in 2..Len(cbCalls) :
               cbCalls[k] = [delta |-> 1, total |-> Len(files), step |-> TRUE]

\* C9 as stated: when the deletion of the oversized artifact fails, the copy
\* overwrites that path and no artifact larger than its source remains.
C9_NoOversizedArtifactRemains ==
    (AfterGuard /\ rmErr) =>
        ~ \E n \in DstNames : /\ dst[n].kind = "artifact"
                              /\ dst[n].of = files[i].name
                              /\ dst[n].size > files[i].size

\* C9 amended: when the deletion of the oversized artifact fails, the error
\* is swallowed and the source is copied to its original file name, which is
\* another path than the artifact's: the recorded output is the source's
\* bytes, and the oversized artifact stays where the Transcoder wrote it.
C9_RemoveErrorSwallowed ==
    (AfterGuard /\ rmErr) =>
        /\ out_path = files[i].name
        /\ out_paths[i] = files[i].name
        /\ dst[out_path] = CopyOf(files[i], img)
        /\ TargetPath(files[i].name, img) # out_path
        /\ dst[TargetPath(files[i].name, img)] = Written(files[i].name, artifact)
        /\ artifact.size > files[i].size

C9_Witness ==
    /\ AfterGuard
    /\ rmErr
    /\ dst[Join("x", "jpg")].kind = "artifact"
    /\ dst[Join("x", "png")].kind = "copy"

\* the regular .log files of the listing
ListedLogs == { k \in DOMAIN listing : IsLogName(listing[k]) /\ IsFile(folder0, listing[k]) }
Present(fo) == { n \in LogNames : Exists(fo, n) }

\* C10: rename_logs_by_hostname never replaces an existing file: no rename
\* lands on an existing path, and at the end the folder holds as many entries
\* as before, every original entry under some name, and the three counters
\* add up to the number of regular .log files listed.
C10_RenameNeverReplaces ==
    /\ ~clobbered
    /\ rpc = "done" =>
         /\ Cardinality(Present(folder)) = Cardinality(Present(folder0))
         /\ { folder[n].id : n \in Present(folder) } = Present(folder0)
         /\ \A n \in Present(folder) :
                folder[n] = folder0[folder[n].id]
         /\ renamed + skipped + failed = Cardinality(ListedLogs)

C10_Witness ==
    /\ rpc = "done"
    /\ renamed >= 2
    /\ Exists(folder, Candidate(<<"h">>, 2))
    /\ ~Exists(folder0, Candidate(<<"h">>, 2))

====
